---- MODULE Spec2Model ----
(***************************************************************************)
(* Todo_App: a FastAPI service over one MongoDB collection.                *)
(*                                                                         *)
(* The handlers of routes/todo.py are modelled as sequences of steps, one  *)
(* step per call to the store (find_one, insert_one, update_one,           *)
(* delete_one, count_documents, find): the store applies each call         *)
(* atomically to one document, and FastAPI runs the synchronous handlers   *)
(* on a thread pool, so the calls of different requests interleave.  The   *)
(* request's arrival, the parsing of its path id and everything the        *)
(* handler computes locally are part of the step of the store call that    *)
(* follows them.  Store calls are taken to succeed (the 500 "Database      *)
(* error" paths are not modelled); the connector of app/database.py, with  *)
(* connection attempts that succeed or fail, is modelled separately        *)
(* (SpecDb).                                                               *)
(*                                                                         *)
(* Python values that may be None are encoded as tuples: None is << >>,    *)
(* a value v is << v >>.                                                   *)
(***************************************************************************)
EXTENDS Integers, Sequences, FiniteSets, TLC

VARIABLES
    store,              \* the collection: ObjectId -> document
    nextId,             \* the next ObjectId insert_one generates
    clock,              \* the last value datetime.now() returned
    nreq,               \* requests started so far
    pc,                 \* per worker: where its handler stands
    req,                \* per worker: the request it handles
    local,              \* per worker: the handler's local variables
    resp,               \* per worker: the response it is about to send
    client,             \* app.database.client
    db,                 \* app.database.db
    todos_collection,   \* app.database.todos_collection
    gpc,                \* per thread: where its get_db_collection call stands
    gres                \* per thread: what its last get_db_collection call gave

vars == << store, nextId, clock, nreq, pc, req, local, resp,
           client, db, todos_collection, gpc, gres >>

hvars == << store, nextId, clock, nreq, pc, req, local, resp >>
dbvars == << client, db, todos_collection, gpc, gres >>

----------------------------------------------------------------------------
(* Bounds of the model *)

MaxIds == 2
MaxClock == 1
MaxReqs == 3
NumProcs == 2
MaxPer == 2
MaxPage == 2

Procs == 1..NumProcs

----------------------------------------------------------------------------
(* Values *)

None == << >>
Some(v) == << v >>

Min(a, b) == IF a <= b THEN a ELSE b

\* The 24-hex-digit strings of the ObjectIds the store hands out.
IdStrings == << "id1", "id2", "id3", "id4", "id5" >>

\* str(ObjectId): routes use it through format_todo_response.
str(oid) == IdStrings[oid]

\* ObjectId(todo_id): None stands for the exception bson raises.
ObjectId(s) ==
    IF \E n \in 1..Len(IdStrings) : IdStrings[n] = s
    THEN Some(CHOOSE n \in 1..Len(IdStrings) : IdStrings[n] = s)
    ELSE None

\* The path ids requests carry: every id the store may hand out, and one
\* string that is no ObjectId.
PathIds == { str(n) : n \in 1..MaxIds } \cup { "zz" }

\* datetime.now(): the wall clock, which two reads may find unchanged.
NowValues == clock .. Min(clock + 1, MaxClock)

----------------------------------------------------------------------------
(* schemas/todo.py *)

Fields == { "title", "description", "completed" }

\* A TodoCreate as pydantic builds it: unset fields hold their defaults.
TodoCreate ==
    { m \in [ fields_set : SUBSET Fields,
              title : { Some("a") },
              description : { None, Some("x") },
              completed : { Some(FALSE), Some(TRUE) } ] :
        /\ "title" \in m.fields_set
        /\ "description" \notin m.fields_set => m.description = None
        /\ "completed" \notin m.fields_set => m.completed = Some(FALSE)
        /\ "completed" \in m.fields_set => m.completed = Some(TRUE) }

\* A TodoUpdate: every field optional, default None.
TodoUpdate ==
    { m \in [ fields_set : SUBSET Fields,
              title : { None, Some("b") },
              description : { None, Some("") },
              completed : { None, Some(FALSE), Some(TRUE) } ] :
        \A f \in Fields : f \notin m.fields_set => m[f] = None }

\* BaseModel.model_dump(): every field, set or not.
model_dump(m) == [ k \in Fields |-> m[k] ]

\* BaseModel.model_dump(exclude_unset=True).
model_dump_exclude_unset(m) == [ k \in m.fields_set |-> m[k] ]

----------------------------------------------------------------------------
(* app/models.py *)

\* dict.get(key, default)
get(d, key, default) == IF key \in DOMAIN d THEN d[key] ELSE default

create_todo_document(todo_dict, now) ==
    [ title |-> todo_dict["title"],
      description |-> get(todo_dict, "description", Some("")),
      completed |-> get(todo_dict, "completed", Some(FALSE)),
      created_at |-> now,
      updated_at |-> now,
      deleted |-> FALSE,
      deleted_at |-> None ]

EmptyDict == << >>

\* The argument is what find_one returned: None or Some(document).
format_todo_response(todo_document) ==
    IF todo_document = None
    THEN EmptyDict
    ELSE LET d == todo_document[1] IN
         [ id |-> str(d._id),
           title |-> d.title,
           description |-> d.description,
           completed |-> d.completed,
           created_at |-> d.created_at,
           updated_at |-> d.updated_at,
           deleted |-> d.deleted,
           deleted_at |-> d.deleted_at ]

----------------------------------------------------------------------------
(* The store (pymongo Collection) *)

find_one(s, oid) == IF oid \in DOMAIN s THEN Some(s[oid]) ELSE None

insert_one(s, oid, doc) ==
    [ j \in DOMAIN s \cup { oid } |->
        IF j = oid
        THEN [ k \in DOMAIN doc \cup { "_id" } |->
                 IF k = "_id" THEN oid ELSE doc[k] ]
        ELSE s[j] ]

\* $set on one document.
SetFields(doc, setdoc) ==
    [ k \in DOMAIN doc \cup DOMAIN setdoc |->
        IF k \in DOMAIN setdoc THEN setdoc[k] ELSE doc[k] ]

\* update_one with upsert=True: a missing document is created from the $set.
update_one_upsert(s, oid, setdoc) ==
    IF oid \in DOMAIN s
    THEN [ s EXCEPT ![oid] = SetFields(s[oid], setdoc) ]
    ELSE [ j \in DOMAIN s \cup { oid } |->
             IF j = oid THEN SetFields([ _id |-> oid ], setdoc) ELSE s[j] ]

\* update_one({"_id": oid}, {"$set": setdoc}): no upsert.
update_one(s, oid, setdoc) ==
    IF oid \in DOMAIN s
    THEN [ s EXCEPT ![oid] = SetFields(s[oid], setdoc) ]
    ELSE s

delete_one(s, oid) == [ j \in DOMAIN s \ { oid } |-> s[j] ]

\* A query filter: None is {}, Some(b) is {"deleted": b}.
Matching(s, query_filter) ==
    { j \in DOMAIN s : query_filter = None \/ s[j].deleted = query_filter[1] }

count_documents(s, query_filter) == Cardinality(Matching(s, query_filter))

----------------------------------------------------------------------------
(* Requests, responses, locals *)

NoBody == [ fields_set |-> {} ]

Request(op, todo_id, body, permanent) ==
    [ op |-> op, todo_id |-> todo_id, body |-> body, permanent |-> permanent,
      include_deleted |-> FALSE, sort_by |-> None,
      items_per_page |-> 1, page_number |-> 1 ]

ListRequest(include_deleted, sort_by, items_per_page, page_number) ==
    [ op |-> "list", todo_id |-> "", body |-> NoBody, permanent |-> FALSE,
      include_deleted |-> include_deleted, sort_by |-> sort_by,
      items_per_page |-> items_per_page, page_number |-> page_number ]

NoRequest == Request("none", "", NoBody, FALSE)

HTTPException(status_code, detail) ==
    [ status |-> status_code, detail |-> detail, body |-> None ]

Ok(body) == [ status |-> 200, detail |-> "", body |-> Some(body) ]

\* FastAPI validates what the handler returns against TodoResponse: the
\* empty dict format_todo_response gives for no document fails it.
TodoResponse(view) ==
    IF view = EmptyDict
    THEN HTTPException(500, "Internal Server Error")
    ELSE Ok(view)

NoResponse == HTTPException(0, "")

NoLocal ==
    [ db_todo |-> None, obj_id |-> 0, update_data |-> << >>, total_items |-> 0 ]

----------------------------------------------------------------------------
(* Initial state: an empty collection, no request in flight, the           *)
(* connection established at import (database.py line 46).                 *)

Init ==
    /\ store = << >>
    /\ nextId = 1
    /\ clock = 0
    /\ nreq = 0
    /\ pc = [ p \in Procs |-> "idle" ]
    /\ req = [ p \in Procs |-> NoRequest ]
    /\ local = [ p \in Procs |-> NoLocal ]
    /\ resp = [ p \in Procs |-> NoResponse ]
    /\ client = Some(0)
    /\ db = Some(0)
    /\ todos_collection = Some(0)
    /\ gpc = [ p \in Procs |-> "idle" ]
    /\ gres = [ p \in Procs |-> [ kind |-> "none", value |-> None ] ]

\* A worker takes a request when it has none in hand.
Free(p) == pc[p] = "idle" /\ nreq < MaxReqs

Begin(p, r) ==
    /\ Free(p)
    /\ nreq' = nreq + 1
    /\ req' = [ req EXCEPT ![p] = r ]

Finish(p, response) ==
    /\ pc' = [ pc EXCEPT ![p] = "done" ]
    /\ resp' = [ resp EXCEPT ![p] = response ]
    /\ local' = [ local EXCEPT ![p] = NoLocal ]

\* The response goes out and the worker is free again.
Reply(p) ==
    /\ pc[p] = "done"
    /\ pc' = [ pc EXCEPT ![p] = "idle" ]
    /\ req' = [ req EXCEPT ![p] = NoRequest ]
    /\ resp' = [ resp EXCEPT ![p] = NoResponse ]
    /\ UNCHANGED << store, nextId, clock, nreq, local >>
    /\ UNCHANGED dbvars

Goto(p, label, loc) ==
    /\ pc' = [ pc EXCEPT ![p] = label ]
    /\ local' = [ local EXCEPT ![p] = loc ]
    /\ UNCHANGED resp

----------------------------------------------------------------------------
(* create_todo *)

CreateInsert(p, In) ==
    \E todo \in In.creates, now \in NowValues :
        /\ nextId <= MaxIds
        /\ Begin(p, Request("create", "", todo, FALSE))
        /\ clock' = now
        /\ store' = insert_one(store, nextId,
                               create_todo_document(model_dump(todo), now))
        /\ nextId' = nextId + 1
        /\ Goto(p, "c_find", [ NoLocal EXCEPT !.obj_id = nextId ])
        /\ UNCHANGED dbvars

CreateFind(p) ==
    /\ pc[p] = "c_find"
    /\ Finish(p, TodoResponse(
                    format_todo_response(find_one(store, local[p].obj_id))))
    /\ UNCHANGED << store, nextId, clock, nreq, req >>
    /\ UNCHANGED dbvars

----------------------------------------------------------------------------
(* read_todos *)

PaginatedResponse(current_page, total_pages, items_per_page, total_items, data) ==
    [ current_page |-> current_page, total_pages |-> total_pages,
      items_per_page |-> items_per_page, total_items |-> total_items,
      data |-> data ]

\* query_filter = {} if include_deleted else {"deleted": False}
QueryFilter(include_deleted) == IF include_deleted THEN None ELSE Some(FALSE)

TotalPages(total_items, items_per_page) ==
    (total_items + items_per_page - 1) \div items_per_page

\* The offset of a page counted from 0 instead of 1.
SkipFromZero(page_number, items_per_page) == page_number * items_per_page

Skip(page_number, items_per_page) == (page_number - 1) * items_per_page

\* The sort key of a document, larger first; 0 for all when no sort is asked.
SortKey(doc, sort_by) ==
    IF sort_by = Some("date") THEN doc.created_at
    ELSE IF sort_by = Some("completed")
         THEN (IF doc.completed = Some(TRUE) THEN 1 ELSE 0)
         ELSE 0

\* collection.find(query_filter).sort(sort_options): the orders in which the
\* cursor may yield the matching documents.  The store fixes neither the
\* natural order nor the order among equal sort keys.
Cursors(s, query_filter, sort_by) ==
    LET M == Matching(s, query_filter)
        n == Cardinality(M)
    IN { c \in [ 1..n -> M ] :
           /\ \A i, j \in 1..n : i # j => c[i] # c[j]
           /\ \A i, j \in 1..n :
                i < j => SortKey(s[c[i]], sort_by) >= SortKey(s[c[j]], sort_by) }

\* cursor.skip(skip).limit(limit)
SkipLimit(c, skip, limit) ==
    [ i \in 1..Min(limit, Len(c) - Min(skip, Len(c))) |-> c[skip + i] ]

ListCount(p, In) ==
    \E q \in In.lists :
        LET include_deleted == q.include_deleted
            sort_by == q.sort_by
            items_per_page == q.items_per_page
            page_number == q.page_number
            total_items == count_documents(store, QueryFilter(include_deleted))
            total_pages == TotalPages(total_items, items_per_page)
            skip == Skip(page_number, items_per_page)
        IN /\ Begin(p, ListRequest(include_deleted, sort_by,
                                   items_per_page, page_number))
           /\ IF skip >= total_items
              THEN Finish(p, Ok(PaginatedResponse(page_number, total_pages,
                                   items_per_page, total_items, << >>)))
              ELSE Goto(p, "l_find", [ NoLocal EXCEPT !.total_items = total_items ])
           /\ UNCHANGED << store, nextId, clock >>
           /\ UNCHANGED dbvars

ListFind(p) ==
    /\ pc[p] = "l_find"
    /\ LET r == req[p]
           total_items == local[p].total_items
       IN \E cursor \in Cursors(store, QueryFilter(r.include_deleted), r.sort_by) :
            LET page == SkipLimit(cursor, Skip(r.page_number, r.items_per_page),
                                  r.items_per_page)
                todos == [ i \in 1..Len(page) |->
                             format_todo_response(find_one(store, page[i])) ]
            IN Finish(p, Ok(PaginatedResponse(r.page_number,
                              TotalPages(total_items, r.items_per_page),
                              r.items_per_page, total_items, todos)))
    /\ UNCHANGED << store, nextId, clock, nreq, req >>
    /\ UNCHANGED dbvars

----------------------------------------------------------------------------
(* read_todo *)

\* The flag read under a key no document has: always the default.
IsDeletedWrongKey(doc) == get(doc, "is_deleted", FALSE)

\* todo.get("deleted", False)
IsDeleted(doc) == get(doc, "deleted", FALSE)

\* read_todo without the soft-delete check of lines 113-115.
ReadResultUnchecked(found) ==
    IF found = None THEN HTTPException(404, "Todo not found")
    ELSE TodoResponse(format_todo_response(found))

ReadResult(found) ==
    IF found = None THEN HTTPException(404, "Todo not found")
    ELSE IF IsDeleted(found[1]) THEN HTTPException(404, "Todo was deleted")
    ELSE TodoResponse(format_todo_response(found))

ReadTodo(p, In) ==
    \E todo_id \in In.ids :
        LET obj_id == ObjectId(todo_id) IN
        /\ Begin(p, Request("read", todo_id, NoBody, FALSE))
        /\ IF obj_id = None
           THEN Finish(p, HTTPException(400, "Invalid ID format"))
           ELSE Finish(p, ReadResult(find_one(store, obj_id[1])))
        /\ UNCHANGED << store, nextId, clock >>
        /\ UNCHANGED dbvars

----------------------------------------------------------------------------
(* update_todo *)

\* The comprehension with "if v" for "if v is not None": False and ""
\* are dropped with None.
UpdateDataTruthy(todo, now) ==
    LET d == model_dump_exclude_unset(todo)
        K == { k \in DOMAIN d : IF k = "completed" THEN d[k] = Some(TRUE)
                                 ELSE d[k] # None /\ d[k] # Some("") }
    IN IF K = {} THEN << >>
       ELSE [ k \in K \cup { "updated_at" } |->
                IF k = "updated_at" THEN now ELSE d[k] ]

\* {k: v for k, v in todo.model_dump(exclude_unset=True).items()
\*        if v is not None}, and updated_at when any is left.
UpdateData(todo, now) ==
    LET d == model_dump_exclude_unset(todo)
        K == { k \in DOMAIN d : d[k] # None }
    IN IF K = {} THEN << >>
       ELSE [ k \in K \cup { "updated_at" } |->
                IF k = "updated_at" THEN now ELSE d[k] ]

UpdateFind(p, In) ==
    \E todo_id \in In.ids, todo \in In.updates :
        LET obj_id == ObjectId(todo_id)
            db_todo == IF obj_id = None THEN None ELSE find_one(store, obj_id[1])
        IN
        /\ Begin(p, Request("update", todo_id, todo, FALSE))
        /\ IF obj_id = None
           THEN Finish(p, HTTPException(400, "Invalid ID format"))
                /\ UNCHANGED clock
           ELSE IF db_todo = None
           THEN Finish(p, HTTPException(404, "Todo not found"))
                /\ UNCHANGED clock
           ELSE IF IsDeleted(db_todo[1])
           THEN Finish(p, HTTPException(400, "Cannot update deleted todo"))
                /\ UNCHANGED clock
           ELSE IF UpdateData(todo, 0) = << >>
           THEN Goto(p, "u_read", [ NoLocal EXCEPT !.obj_id = obj_id[1] ])
                /\ UNCHANGED clock
           ELSE \E now \in NowValues :
                  /\ clock' = now
                  /\ Goto(p, "u_write",
                          [ NoLocal EXCEPT !.obj_id = obj_id[1],
                                           !.update_data = UpdateData(todo, now) ])
        /\ UNCHANGED << store, nextId >>
        /\ UNCHANGED dbvars

UpdateWrite(p) ==
    /\ pc[p] = "u_write"
    /\ store' = update_one(store, local[p].obj_id, local[p].update_data)
    /\ Goto(p, "u_read", [ NoLocal EXCEPT !.obj_id = local[p].obj_id ])
    /\ UNCHANGED << nextId, clock, nreq, req >>
    /\ UNCHANGED dbvars

UpdateRead(p) ==
    /\ pc[p] = "u_read"
    /\ Finish(p, TodoResponse(
                    format_todo_response(find_one(store, local[p].obj_id))))
    /\ UNCHANGED << store, nextId, clock, nreq, req >>
    /\ UNCHANGED dbvars

----------------------------------------------------------------------------
(* delete_todo *)

\* A soft delete that sets the flag and forgets the timestamp.
SoftDeleteSetFlagOnly(now) == [ deleted |-> TRUE ]

\* {"$set": {"deleted": True, "deleted_at": datetime.now()}}
SoftDeleteSet(now) == [ deleted |-> TRUE, deleted_at |-> Some(now) ]

DeleteFind(p, In) ==
    \E todo_id \in In.ids, permanent \in BOOLEAN :
        LET obj_id == ObjectId(todo_id)
            db_todo == IF obj_id = None THEN None ELSE find_one(store, obj_id[1])
        IN
        /\ Begin(p, Request("delete", todo_id, NoBody, permanent))
        /\ IF obj_id = None
           THEN Finish(p, HTTPException(400, "Invalid ID format"))
           ELSE IF db_todo = None
           THEN Finish(p, HTTPException(404, "Todo not found"))
           ELSE Goto(p, "d_write", [ NoLocal EXCEPT !.obj_id = obj_id[1],
                                                    !.db_todo = db_todo ])
        /\ UNCHANGED << store, nextId, clock >>
        /\ UNCHANGED dbvars

\* delete_todo answering with the document read back after the write, as
\* update_todo and restore_todo do.
DeleteWriteReadBack(p) ==
    /\ pc[p] = "d_write"
    /\ IF req[p].permanent
       THEN /\ store' = delete_one(store, local[p].obj_id)
            /\ UNCHANGED clock
       ELSE \E now \in NowValues :
              /\ clock' = now
              /\ store' = update_one(store, local[p].obj_id, SoftDeleteSet(now))
    /\ Finish(p, TodoResponse(
                    format_todo_response(find_one(store', local[p].obj_id))))
    /\ UNCHANGED << nextId, nreq, req >>
    /\ UNCHANGED dbvars

DeleteWrite(p) ==
    /\ pc[p] = "d_write"
    /\ IF req[p].permanent
       THEN /\ store' = delete_one(store, local[p].obj_id)
            /\ UNCHANGED clock
       ELSE \E now \in NowValues :
              /\ clock' = now
              /\ store' = update_one(store, local[p].obj_id, SoftDeleteSet(now))
    /\ Finish(p, TodoResponse(format_todo_response(local[p].db_todo)))
    /\ UNCHANGED << nextId, nreq, req >>
    /\ UNCHANGED dbvars

----------------------------------------------------------------------------
(* restore_todo *)

\* {"$set": {"deleted": False, "deleted_at": None}}
RestoreSet == [ deleted |-> FALSE, deleted_at |-> None ]

RestoreFind(p, In) ==
    \E todo_id \in In.ids :
        LET obj_id == ObjectId(todo_id)
            db_todo == IF obj_id = None THEN None ELSE find_one(store, obj_id[1])
        IN
        /\ Begin(p, Request("restore", todo_id, NoBody, FALSE))
        /\ IF obj_id = None
           THEN Finish(p, HTTPException(400, "Invalid ID format"))
           ELSE IF db_todo = None
           THEN Finish(p, HTTPException(404, "Todo not found"))
           ELSE IF ~ IsDeleted(db_todo[1])
           THEN Finish(p, HTTPException(400, "Todo is not deleted"))
           ELSE Goto(p, "r_write", [ NoLocal EXCEPT !.obj_id = obj_id[1] ])
        /\ UNCHANGED << store, nextId, clock >>
        /\ UNCHANGED dbvars

RestoreWrite(p) ==
    /\ pc[p] = "r_write"
    /\ store' = update_one(store, local[p].obj_id, RestoreSet)
    /\ Goto(p, "r_read", [ NoLocal EXCEPT !.obj_id = local[p].obj_id ])
    /\ UNCHANGED << nextId, clock, nreq, req >>
    /\ UNCHANGED dbvars

RestoreRead(p) ==
    /\ pc[p] = "r_read"
    /\ Finish(p, TodoResponse(
                    format_todo_response(find_one(store, local[p].obj_id))))
    /\ UNCHANGED << store, nextId, clock, nreq, req >>
    /\ UNCHANGED dbvars

----------------------------------------------------------------------------
(* Specifications *)

\* The query parameters of read_todos (items_per_page and page_number are
\* validated gt=0).
ListQueries ==
    [ include_deleted : BOOLEAN,
      sort_by : { None, Some("date"), Some("completed") },
      items_per_page : 1..MaxPer,
      page_number : 1..MaxPage ]

\* The inputs requests are drawn from when they are handled one at a time.
SeqInputs ==
    [ ids |-> PathIds, creates |-> TodoCreate, updates |-> TodoUpdate,
      lists |-> ListQueries ]

\* The inputs of interleaved requests: the same operations on the same ids,
\* with fewer bodies (an update that sets nothing, one whose only field is
\* null, one that completes the todo) and first-page listings.
ConcInputs ==
    [ ids |-> PathIds,
      creates |-> { m \in TodoCreate : m.fields_set = { "title" } },
      updates |-> { m \in TodoUpdate : /\ m.fields_set \subseteq { "completed" }
                                       /\ m.completed # Some(FALSE) },
      lists |-> { q \in ListQueries : /\ q.sort_by = None
                                      /\ q.items_per_page = 1
                                      /\ q.page_number = 1 } ]

Step(p, In) ==
    \/ CreateInsert(p, In)
    \/ CreateFind(p)
    \/ ListCount(p, In)
    \/ ListFind(p)
    \/ ReadTodo(p, In)
    \/ UpdateFind(p, In)
    \/ UpdateWrite(p)
    \/ UpdateRead(p)
    \/ DeleteFind(p, In)
    \/ DeleteWrite(p)
    \/ RestoreFind(p, In)
    \/ RestoreWrite(p)
    \/ RestoreRead(p)

\* No response is waiting to go out.  Sending a response touches nothing the
\* workers share, so it is taken to come right after the handler's last step.
Quiet == \A q \in Procs : pc[q] # "done"

\* Requests of the workers interleaved at their store calls.
Next ==
    \E p \in Procs :
        \/ Quiet /\ Step(p, ConcInputs)
        \/ Reply(p)

Spec == Init /\ [][Next]_vars

\* Requests handled one at a time: one worker.
NextSeq ==
    \/ Quiet /\ Step(1, SeqInputs)
    \/ Reply(1)

SpecSeq == Init /\ [][NextSeq]_vars

----------------------------------------------------------------------------
(* app/database.py: initialize_db and get_db_collection, called by the     *)
(* thread of every request (Depends).  The globals are read and written    *)
(* one at a time, so the calls of different threads interleave at each     *)
(* access; a connection attempt may succeed or fail at MongoClient(), at   *)
(* the ping and at create_index.                                           *)

NoResult == [ kind |-> "none", value |-> None ]
Raised == [ kind |-> "raised", value |-> None ]
Returned(v) == [ kind |-> "returned", value |-> v ]

\* The import-time initialize_db() (line 46) failed: the handle is unset.
InitUnset ==
    /\ store = << >>
    /\ nextId = 1
    /\ clock = 0
    /\ nreq = 0
    /\ pc = [ p \in Procs |-> "idle" ]
    /\ req = [ p \in Procs |-> NoRequest ]
    /\ local = [ p \in Procs |-> NoLocal ]
    /\ resp = [ p \in Procs |-> NoResponse ]
    /\ client = None
    /\ db = None
    /\ todos_collection = None
    /\ gpc = [ t \in Procs |-> "idle" ]
    /\ gres = [ t \in Procs |-> NoResult ]

GGoto(t, label) ==
    /\ gpc' = [ gpc EXCEPT ![t] = label ]
    /\ UNCHANGED gres

GFinish(t, result) ==
    /\ gpc' = [ gpc EXCEPT ![t] = "done" ]
    /\ gres' = [ gres EXCEPT ![t] = result ]

\* get_db_collection, line 66: if todos_collection is None
GetCheck(t) ==
    /\ gpc[t] \in { "idle", "done" }
    /\ IF todos_collection = None
       THEN GGoto(t, "i_client")
       ELSE GGoto(t, "g_return")
    /\ UNCHANGED << client, db, todos_collection >>
    /\ UNCHANGED hvars

\* line 24: client = MongoClient(...), or the exception it raises
InitializeClient(t) ==
    /\ gpc[t] = "i_client"
    /\ \/ client' = Some(t) /\ GGoto(t, "i_ping")
       \/ UNCHANGED client /\ GGoto(t, "e_client")
    /\ UNCHANGED << db, todos_collection >>
    /\ UNCHANGED hvars

\* line 30: client.admin.command('ping')
InitializePing(t) ==
    /\ gpc[t] = "i_ping"
    /\ \/ client # None /\ GGoto(t, "i_db")
       \/ GGoto(t, "e_client")
    /\ UNCHANGED << client, db, todos_collection >>
    /\ UNCHANGED hvars

\* line 33: db = client[DATABASE_NAME]
InitializeDb(t) ==
    /\ gpc[t] = "i_db"
    /\ IF client # None
       THEN db' = client /\ GGoto(t, "i_coll")
       ELSE UNCHANGED db /\ GGoto(t, "e_client")
    /\ UNCHANGED << client, todos_collection >>
    /\ UNCHANGED hvars

\* line 34: todos_collection = db[COLLECTION_NAME]
InitializeCollection(t) ==
    /\ gpc[t] = "i_coll"
    /\ IF db # None
       THEN todos_collection' = db /\ GGoto(t, "i_index")
       ELSE UNCHANGED todos_collection /\ GGoto(t, "e_client")
    /\ UNCHANGED << client, db >>
    /\ UNCHANGED hvars

\* lines 36-37: todos_collection.create_index("title"); return True
InitializeIndex(t) ==
    /\ gpc[t] = "i_index"
    /\ \/ todos_collection # None /\ GGoto(t, "g_return")
       \/ GGoto(t, "e_client")
    /\ UNCHANGED << client, db, todos_collection >>
    /\ UNCHANGED hvars

\* line 41: client = None
ExceptClient(t) ==
    /\ gpc[t] = "e_client"
    /\ client' = None
    /\ GGoto(t, "e_db")
    /\ UNCHANGED << db, todos_collection >>
    /\ UNCHANGED hvars

\* line 42: db = None
ExceptDb(t) ==
    /\ gpc[t] = "e_db"
    /\ db' = None
    /\ GGoto(t, "e_coll")
    /\ UNCHANGED << client, todos_collection >>
    /\ UNCHANGED hvars

\* lines 43-44 and 67-68: todos_collection = None; return False; raise
ExceptCollection(t) ==
    /\ gpc[t] = "e_coll"
    /\ todos_collection' = None
    /\ GFinish(t, Raised)
    /\ UNCHANGED << client, db >>
    /\ UNCHANGED hvars

\* line 69: return todos_collection
GetReturn(t) ==
    /\ gpc[t] = "g_return"
    /\ GFinish(t, Returned(todos_collection))
    /\ UNCHANGED << client, db, todos_collection >>
    /\ UNCHANGED hvars

NextDb ==
    \E t \in Procs :
        \/ GetCheck(t)
        \/ InitializeClient(t)
        \/ InitializePing(t)
        \/ InitializeDb(t)
        \/ InitializeCollection(t)
        \/ InitializeIndex(t)
        \/ ExceptClient(t)
        \/ ExceptDb(t)
        \/ ExceptCollection(t)
        \/ GetReturn(t)

SpecDb == InitUnset /\ [][NextDb]_vars

----------------------------------------------------------------------------
(* Properties *)

Done(p, op) == pc[p] = "done" /\ req[p].op = op

\* The fields of a TodoUpdate the request supplies with a non-null value.
Supplied(body) == { f \in Fields : f \in body.fields_set /\ body[f] # None }

\* In this step worker p took a new request (req'[p]).
Arrives(p) == pc[p] = "idle" /\ pc'[p] # "idle"

\* In this step the request of worker p was turned down, the store untouched.
Rejected(p, status_code, detail) ==
    /\ pc'[p] = "done"
    /\ resp'[p] = HTTPException(status_code, detail)
    /\ store' = store

\* C1: in every reachable state of the interleaved requests, every stored
\* record has deleted = true exactly when its deleted_at is not null.
C1_DeletedIffDeletedAt ==
    \A i \in DOMAIN store : store[i].deleted <=> store[i].deleted_at # None

\* C1 witness: a soft-deleted record with its timestamp, while the write of
\* another request on that record is still to come.
C1_Witness ==
    \E i \in DOMAIN store, p \in Procs :
        /\ store[i].deleted
        /\ store[i].deleted_at # None
        /\ pc[p] \in { "u_write", "d_write", "r_write" }
        /\ local[p].obj_id = i

\* C2: handled one at a time, an update of an existing deleted record is
\* turned down with 400 "Cannot update deleted todo", a restore of an existing
\* active record with 400 "Todo is not deleted", an unparsable id with 400 and
\* an absent record with 404; in each case the store is unchanged.
C2_RejectedLeavesStore ==
    [][ \A p \in Procs :
          (Arrives(p) /\ req'[p].op \in { "update", "restore" }) =>
            LET r == req'[p]
                oid == ObjectId(r.todo_id)
                exists == oid # None /\ oid[1] \in DOMAIN store
            IN /\ oid = None => Rejected(p, 400, "Invalid ID format")
               /\ (oid # None /\ ~ exists) => Rejected(p, 404, "Todo not found")
               /\ (exists /\ r.op = "update" /\ store[oid[1]].deleted)
                    => Rejected(p, 400, "Cannot update deleted todo")
               /\ (exists /\ r.op = "restore" /\ ~ store[oid[1]].deleted)
                    => Rejected(p, 400, "Todo is not deleted")
               /\ (exists /\ r.op = "update" /\ ~ store[oid[1]].deleted)
                    => pc'[p] # "done"
               /\ (exists /\ r.op = "restore" /\ store[oid[1]].deleted)
                    => pc'[p] # "done"
      ]_vars

\* C2 witness: an update of a soft-deleted record was turned down.
C2_Witness ==
    \E p \in Procs :
        /\ Done(p, "update")
        /\ resp[p] = HTTPException(400, "Cannot update deleted todo")
        /\ ObjectId(req[p].todo_id)[1] \in DOMAIN store
        /\ store[ObjectId(req[p].todo_id)[1]].deleted

\* C3: a creation that omits description is stored and returned with
\* description "", deleted false, and completed false when completed is
\* omitted too.
C3_CreateDefaults ==
    \A p \in Procs :
        (Done(p, "create") /\ "description" \notin req[p].body.fields_set) =>
            /\ resp[p].status = 200
            /\ LET view == resp[p].body[1]
                   doc == store[ObjectId(view.id)[1]]
               IN /\ view.description = Some("") /\ doc.description = Some("")
                  /\ view.deleted = FALSE /\ doc.deleted = FALSE
                  /\ "completed" \notin req[p].body.fields_set =>
                       (view.completed = Some(FALSE) /\ doc.completed = Some(FALSE))

\* C4: handled one at a time, a fetch by id succeeds exactly when the record
\* exists with deleted false (404 otherwise) and shows the stored record; a
\* soft delete leaves the record deleted; a restore leaves and shows it with
\* deleted false and deleted_at null; the default list shows no deleted
\* record and a list with include_deleted that holds every match on its page
\* shows every stored record, the deleted ones with deleted true.
C4_Visibility ==
    \A p \in Procs :
        LET r == req[p]
            oid == ObjectId(r.todo_id)
            found == IF oid = None THEN None ELSE find_one(store, oid[1])
        IN /\ (Done(p, "read") /\ oid # None) =>
                /\ resp[p].status = 200 <=> (found # None /\ ~ found[1].deleted)
                /\ resp[p].status # 200 => resp[p].status = 404
                /\ resp[p].status = 200 =>
                     resp[p].body = Some(format_todo_response(found))
           /\ (Done(p, "delete") /\ resp[p].status = 200 /\ ~ r.permanent) =>
                (found # None /\ found[1].deleted)
           /\ (Done(p, "restore") /\ resp[p].status = 200) =>
                /\ found # None
                /\ ~ found[1].deleted /\ found[1].deleted_at = None
                /\ resp[p].body = Some(format_todo_response(found))
                /\ ~ resp[p].body[1].deleted /\ resp[p].body[1].deleted_at = None
           /\ Done(p, "list") =>
                LET page == resp[p].body[1] IN
                /\ ~ r.include_deleted =>
                     \A k \in 1..Len(page.data) : ~ page.data[k].deleted
                /\ (r.include_deleted /\ r.page_number = 1
                      /\ r.items_per_page >= page.total_items) =>
                     \A i \in DOMAIN store :
                        \E k \in 1..Len(page.data) :
                            /\ page.data[k].id = str(i)
                            /\ page.data[k].deleted = store[i].deleted

\* C4 witness: a fetch by id of a soft-deleted record answered 404.
C4_Witness ==
    \E p \in Procs :
        /\ Done(p, "read")
        /\ resp[p] = HTTPException(404, "Todo was deleted")
        /\ store[ObjectId(req[p].todo_id)[1]].deleted

\* C5: handled one at a time, a successful delete (soft or permanent) returns
\* the view of the record as stored immediately before the delete's write; a
\* soft delete of an active record returns deleted false and deleted_at null
\* while the stored record becomes deleted.
C5_DeleteReturnsPreDelete ==
    [][ \A p \in Procs :
          (pc[p] = "d_write" /\ pc'[p] = "done") =>
            LET oid == ObjectId(req[p].todo_id)[1] IN
            /\ oid \in DOMAIN store
            /\ resp'[p] = Ok(format_todo_response(Some(store[oid])))
            /\ (~ req[p].permanent /\ ~ store[oid].deleted) =>
                 /\ resp'[p].body[1].deleted = FALSE
                 /\ resp'[p].body[1].deleted_at = None
                 /\ store'[oid].deleted
            /\ req[p].permanent => oid \notin DOMAIN store'
      ]_vars

\* C5 witness: a soft delete of an active record has answered with deleted
\* false and deleted_at null, and the stored record is deleted.
C5_Witness ==
    \E p \in Procs :
        /\ Done(p, "delete") /\ ~ req[p].permanent
        /\ resp[p].status = 200
        /\ resp[p].body[1].deleted = FALSE
        /\ resp[p].body[1].deleted_at = None
        /\ store[ObjectId(req[p].todo_id)[1]].deleted

\* C6: handled one at a time, a list request returns total_items = the number
\* of records matching the filter, total_pages = ceil(total_items /
\* items_per_page), and as data the matching records at positions skip ..
\* skip + items_per_page - 1 (in descending created_at order when sort_by is
\* date); data is empty when skip >= total_items and never longer than
\* items_per_page.
C6_Pagination ==
    \A p \in Procs :
        Done(p, "list") =>
            LET r == req[p]
                page == resp[p].body[1]
                data == page.data
                M == { i \in DOMAIN store : r.include_deleted \/ ~ store[i].deleted }
                total == Cardinality(M)
                skip == (r.page_number - 1) * r.items_per_page
            IN /\ resp[p].status = 200
               /\ page.total_items = total
               /\ page.total_pages * r.items_per_page >= total
               /\ (page.total_pages - 1) * r.items_per_page < total
               /\ page.current_page = r.page_number
               /\ page.items_per_page = r.items_per_page
               /\ Len(data) <= r.items_per_page
               /\ skip >= total => Len(data) = 0
               /\ skip < total => Len(data) = Min(r.items_per_page, total - skip)
               /\ \A k \in 1..Len(data) :
                     \E i \in M : data[k] = format_todo_response(Some(store[i]))
               /\ \A k, l \in 1..Len(data) : k # l => data[k].id # data[l].id
               /\ r.sort_by = Some("date") =>
                     \A k \in 1..Len(data) :
                        /\ Cardinality({ i \in M : store[i].created_at
                                                     > data[k].created_at })
                             <= skip + k - 1
                        /\ Cardinality({ i \in M : store[i].created_at
                                                     >= data[k].created_at })
                             >= skip + k

\* C6 witness: the second page of one record each, sorted by date, over two
\* records created at different times, holds the older record.
C6_Witness ==
    \E p \in Procs :
        /\ Done(p, "list")
        /\ req[p].sort_by = Some("date")
        /\ req[p].items_per_page = 1 /\ req[p].page_number = 2
        /\ Len(resp[p].body[1].data) = 1
        /\ \E i \in DOMAIN store :
              store[i].created_at > resp[p].body[1].data[1].created_at

\* What C7 says of every step but updated_at: the write of an update changes
\* exactly the supplied non-null fields of the one active record, an update
\* that supplies none never writes, and the answer shows the stored record.
C7_Frame(p) ==
    /\ (pc[p] = "u_write" /\ pc'[p] = "u_read") =>
         LET oid == local[p].obj_id
             body == req[p].body
         IN /\ oid \in DOMAIN store /\ ~ store[oid].deleted
            /\ Supplied(body) # {}
            /\ DOMAIN store' = DOMAIN store
            /\ \A j \in DOMAIN store \ { oid } : store'[j] = store[j]
            /\ \A f \in Fields :
                 store'[oid][f] = IF f \in Supplied(body) THEN body[f]
                                  ELSE store[oid][f]
            /\ \A f \in { "_id", "created_at", "deleted", "deleted_at" } :
                 store'[oid][f] = store[oid][f]
    /\ (req'[p].op = "update" /\ Supplied(req'[p].body) = {}) =>
         (store' = store /\ pc'[p] # "u_write")
    /\ (pc[p] = "u_read" /\ pc'[p] = "done" /\ req[p].op = "update") =>
         LET oid == local[p].obj_id IN
         /\ store' = store
         /\ resp'[p] = Ok(format_todo_response(Some(store[oid])))
         /\ \A f \in Supplied(req[p].body) : store[oid][f] = req[p].body[f]

\* C7 as stated: the write of a successful update leaves updated_at strictly
\* greater than before.
C7_Original ==
    [][ \A p \in Procs :
          /\ C7_Frame(p)
          /\ (pc[p] = "u_write" /\ pc'[p] = "u_read") =>
               store'[local[p].obj_id].updated_at
                 > store[local[p].obj_id].updated_at
      ]_vars

\* C7 as amended: the write of a successful update sets updated_at to the
\* time the request read from the clock, which is not less than before; the
\* rest as stated.
C7_UpdateFrame ==
    [][ \A p \in Procs :
          /\ C7_Frame(p)
          /\ (pc[p] = "u_write" /\ pc'[p] = "u_read") =>
               LET oid == local[p].obj_id IN
               /\ store'[oid].updated_at = clock
               /\ store'[oid].updated_at >= store[oid].updated_at
      ]_vars

\* C7 witness: an update that supplied a title and completed = false, and
\* description as null, has written: the record has the new title and its old
\* description, and an updated_at later than its creation.
C7_Witness ==
    \E p \in Procs :
        /\ pc[p] = "u_read" /\ req[p].op = "update"
        /\ Supplied(req[p].body) = { "title", "completed" }
        /\ "description" \in req[p].body.fields_set
        /\ req[p].body.completed = Some(FALSE)
        /\ LET doc == store[local[p].obj_id] IN
           /\ doc.title = Some("b")
           /\ doc.description = Some("x")
           /\ doc.completed = Some(FALSE)
           /\ doc.updated_at > doc.created_at

\* The state of the record of id i: none before its creation, then active or
\* deleted, purged once removed (ids are never handed out twice).
RecordState(s, n, i) ==
    IF i >= n THEN "none"
    ELSE IF i \notin DOMAIN s THEN "purged"
    ELSE IF IsDeleted(s[i]) THEN "deleted" ELSE "active"

\* In this step worker p applied the write of its delete request on id i.
DeleteApplied(p, i, permanent) ==
    /\ pc[p] = "d_write" /\ pc'[p] = "done"
    /\ local[p].obj_id = i
    /\ req[p].permanent = permanent

\* C8: under any interleaving, a record starts active on create; it goes
\* active -> deleted and deleted -> deleted only by a soft delete, deleted ->
\* active only by a restore, active/deleted -> purged only by a permanent
\* delete, which purges whatever the flag; a purged id never exists again,
\* and a fetch, update, delete or restore that arrives after the purge
\* answers 404.
C8_StateMachine ==
    [][ /\ \A i \in 1..MaxIds :
             LET a == RecordState(store, nextId, i)
                 b == RecordState(store', nextId', i)
             IN /\ a = "none" => b \in { "none", "active" }
                /\ (a = "none" /\ b = "active") =>
                     \E p \in Procs : pc'[p] = "c_find" /\ local'[p].obj_id = i
                /\ a = "purged" => b = "purged"
                /\ a # "none" => b # "none"
                /\ (a = "active" /\ b = "deleted") =>
                     \E p \in Procs : DeleteApplied(p, i, FALSE)
                /\ (a = "deleted" /\ b = "deleted"
                      /\ store'[i].deleted_at # store[i].deleted_at) =>
                     \E p \in Procs : DeleteApplied(p, i, FALSE)
                /\ (a = "deleted" /\ b = "active") =>
                     \E p \in Procs :
                        pc[p] = "r_write" /\ pc'[p] = "r_read"
                          /\ local[p].obj_id = i
                /\ (a \in { "active", "deleted" } /\ b = "purged") =>
                     \E p \in Procs : DeleteApplied(p, i, TRUE)
                /\ \A p \in Procs :
                     /\ DeleteApplied(p, i, TRUE) => b = "purged"
                     /\ (DeleteApplied(p, i, FALSE) /\ a # "purged")
                          => b = "deleted"
        /\ \A p \in Procs :
             (/\ Arrives(p)
              /\ req'[p].op \in { "read", "update", "delete", "restore" }
              /\ ObjectId(req'[p].todo_id) # None
              /\ RecordState(store, nextId, ObjectId(req'[p].todo_id)[1])
                   = "purged")
               => /\ pc'[p] = "done"
                  /\ resp'[p] = HTTPException(404, "Todo not found")
      ]_vars

\* C8 witness: a record is purged while the write of an update, soft delete
\* or restore that read it before the purge is still to come.
C8_Witness ==
    \E i \in 1..MaxIds, p \in Procs :
        /\ RecordState(store, nextId, i) = "purged"
        /\ \/ pc[p] \in { "u_write", "r_write" }
           \/ pc[p] = "d_write" /\ ~ req[p].permanent
        /\ local[p].obj_id = i

\* C9: under any interleaving, no update write changes title, description,
\* completed or updated_at of a record whose deleted flag is true when the
\* write is applied.
C9_NoUpdateOfDeleted ==
    [][ \A p \in Procs :
          (/\ pc[p] = "u_write" /\ pc'[p] = "u_read"
           /\ local[p].obj_id \in DOMAIN store
           /\ store[local[p].obj_id].deleted)
            => \A f \in Fields \cup { "updated_at" } :
                  store'[local[p].obj_id][f] = store[local[p].obj_id][f]
      ]_vars

\* C10: every call of get_db_collection either returns an established handle
\* or raises; it never returns None.
C10_GetCollection ==
    \A t \in Procs :
        gpc[t] = "done" =>
            \/ gres[t] = Raised
            \/ gres[t].kind = "returned" /\ gres[t].value # None

====
